---- MODULE Spec2Model ----
(***************************************************************************)
(* A model of the KidneyOS kernel heap facade (kernel/src/mem/mod.rs):     *)
(* the KernelAllocator state machine, its four statistics counters, the    *)
(* GlobalAlloc implementation and the frame_alloc / frame_dealloc entry    *)
(* points.  The dummy bump allocator and the core-map frame allocator      *)
(* live in mem/frame_allocator.rs, outside the files covered here; they    *)
(* are modelled from the design document (sections 4.1 - 4.3).             *)
(*                                                                         *)
(* Addresses are byte addresses relative to OFFSET (the kernel's virtual   *)
(* offset), so that they fit TLC's integers.                               *)
(*                                                                         *)
(* Fatal outcomes.  halt!() spins in `loop {}`: nothing runs afterwards,   *)
(* so a halt sets `halted` and disables every action.  panic!() and the    *)
(* assert macros unwind out of the call: the call ends with result         *)
(* "panic", what it wrote before the panic stays written, and the caller   *)
(* (a test harness) may go on calling the allocator.                       *)
(***************************************************************************)
EXTENDS Integers, Sequences, FiniteSets, TLC

\* ------------------------------------------------------------------ sizes
KB == 1024
MB == 1048576
PAGE_FRAME_SIZE == 4096
MAX_SUPPORTED_ALIGN == 4096
\* UPPER_MEMORY_START = MB + OFFSET, here relative to OFFSET.
UPPER_MEMORY_START == MB
\* size_of::<CoreMapEntry>() and its alignment on the 32-bit target
\* (a bool and a usize).
CoreMapEntrySize == 8
CoreMapEntryAlign == 4

\* ----------------------------------------------------------------- bounds
\* Physical memory above the heap top: 1 .. MaxMemPages pages.
MaxMemPages == 3
\* Global allocate calls are made while TOTAL_NUM_ALLOCATIONS < MaxAllocs.
MaxAllocs == 2
\* The core maps handed to mark_allocated and mark_free on their own have
\* 1 .. MaxCoreMapLen entries, with run lengths 0 .. MaxCoreMapLen.
MaxCoreMapLen == 3

\* The values trampoline_heap_top() may have: page aligned, and not.
HeapTops == { UPPER_MEMORY_START + 2 * PAGE_FRAME_SIZE,
              UPPER_MEMORY_START + 2 * PAGE_FRAME_SIZE + KB }
\* mem_upper values (in KB) handed to init: memory ends one page, one and
\* a half pages, or 2 .. MaxMemPages pages above the aligned heap top.
MemUppers == { 12, 14 } \cup { 8 + 4 * k : k \in 2..MaxMemPages }
\* frame counts asked of frame_alloc (total_frames + 1 is among them).
FrameCounts == 0..MaxMemPages
\* layouts handed to the global allocate call.
LayoutSizes == { 1, PAGE_FRAME_SIZE }
LayoutAligns == { 1, PAGE_FRAME_SIZE, 2 * PAGE_FRAME_SIZE }

NullPtr == 0 - 1

VARIABLES
    state,          \* KernelAllocatorState: "Setup", "Initialized", "Deinitialized"
    dummy_allocator,\* SetupState { dummy_allocator }: [start, end]
    base,           \* Initialized: the frame allocator's start pointer
    core_map,       \* Initialized: the frame allocator's core map
    TOTAL_NUM_ALLOCATIONS,
    TOTAL_NUM_DEALLOCATIONS,
    TOTAL_NUM_FRAMES_ALLOCATED,
    TOTAL_NUM_FRAMES_DEALLOCATED,
    heap_top,       \* the value of trampoline_heap_top()
    halted,         \* the CPU spins in halt!()
    outstanding,    \* history: runs returned by frame_alloc and not yet freed
    frame_calls_only, \* history: since init, only frame_alloc / frame_dealloc ran
    last            \* history: the last call (of the facade, or of a TCB
                    \* operation) and how it ended

alloc_vars == << state, dummy_allocator, base, core_map, TOTAL_NUM_ALLOCATIONS,
                 TOTAL_NUM_DEALLOCATIONS, TOTAL_NUM_FRAMES_ALLOCATED,
                 TOTAL_NUM_FRAMES_DEALLOCATED, heap_top, halted, outstanding,
                 frame_calls_only, last >>

\* The threading system (kernel/src/threading).  A TCB is a record; the
\* scheduler reads and writes its tid and status only.
VARIABLES
    tcbs,           \* the thread control blocks made so far, by tid
    scheduler,      \* FIFOScheduler: the queue of TCBs (their tids), head first
    running_thread, \* threads.running_thread: the tid of the TCB the CPU runs
    NEXT_UNRESERVED_TID,
    intr_level,     \* intr_get_level(): "IntrOn" or "IntrOff"
    scheduler_lock, \* threads.scheduler's lock is held
    pc,             \* where the CPU is: "boot" (create_scheduler has not
                    \* returned), "thread", "yield" (the pop loop), "die"
                    \* (scheduler_yield_and_die, before its panic!), "panic"
    status_for_current_thread, \* the argument of the scheduler_yield in progress
    suspended,      \* per thread switched away from: its scheduler_yield frame
    wakeup_tcb,     \* per thread inside thread_wakeup: the TCB get_mut returned
    yield_log,      \* history: the scheduler_yield in progress
    sched_log,      \* history: what the threads were promised
    tid_call,       \* per caller of allocate_tid: where it is in the call
    tids_returned,  \* history: the values allocate_tid has returned
    made            \* per TCB new_func returned and nobody pushed yet: the
                    \* thread that holds it

tid_vars == << tid_call, tids_returned >>

sched_vars == << tcbs, scheduler, running_thread, NEXT_UNRESERVED_TID,
                 intr_level, scheduler_lock, pc, status_for_current_thread,
                 suspended, wakeup_tcb, yield_log, sched_log, tid_vars, made >>

vars == << alloc_vars, sched_vars >>

counters == << TOTAL_NUM_ALLOCATIONS, TOTAL_NUM_DEALLOCATIONS,
               TOTAL_NUM_FRAMES_ALLOCATED, TOTAL_NUM_FRAMES_DEALLOCATED >>

\* ------------------------------------------------------- pure arithmetic
\* usize::next_multiple_of
next_multiple_of(x, m) == ((x + m - 1) \div m) * m

\* ((size + align).next_multiple_of(PAGE_FRAME_SIZE)) / PAGE_FRAME_SIZE
num_frames_requested(size, align) ==
    next_multiple_of(size + align, PAGE_FRAME_SIZE) \div PAGE_FRAME_SIZE

\* --------------------------------------------------- dummy bump allocator
\* DummyAllocatorSolution::new_in(0, 0)
DummyNew == [start |-> 0, end |-> 0]

\* DummyAllocatorSolution::alloc: align start up to a page boundary, check
\* that the run fits below end, advance start, return the aligned start.
DummyAlloc(d, n) ==
    LET s == next_multiple_of(d.start, PAGE_FRAME_SIZE) IN
    IF s + n * PAGE_FRAME_SIZE <= d.end
    THEN [ok |-> TRUE, ptr |-> s,
          dummy |-> [start |-> s + n * PAGE_FRAME_SIZE, end |-> d.end]]
    ELSE [ok |-> FALSE, ptr |-> NullPtr, dummy |-> d]

\* ------------------------------------------------------------- core map
\* CoreMapEntry::DEFAULT
CoreMapEntryDefault == [allocated |-> FALSE, run_length |-> 0]

\* entries [s, s+n) of cm (0-based frame numbers) are all free
AllFree(cm, s, n) == \A i \in s..(s + n - 1) : ~cm[i + 1].allocated
RunFree(cm, s, n) == s + n <= Len(cm) /\ AllFree(cm, s, n)

\* find_free_run: linear first-fit scan; the first frame number of a run of
\* n free entries, or -1 (OutOfMemory).
find_free_run(cm, n) ==
    IF n = 0 \/ ~\E s \in 0..(Len(cm) - n) : AllFree(cm, s, n) THEN 0 - 1
    ELSE CHOOSE s \in 0..(Len(cm) - n) :
             AllFree(cm, s, n) /\ \A t \in 0..(s - 1) : ~AllFree(cm, t, n)

\* A mark_allocated that sets the flag of the run's first frame only.
mark_allocated_first_only(cm, s, n) ==
    [i \in 1..Len(cm) |->
        IF i = s + 1 THEN [allocated |-> TRUE, run_length |-> n] ELSE cm[i]]

\* mark_allocated(start, n)
mark_allocated(cm, s, n) ==
    SubSeq(cm, 1, s)
        \o [i \in 1..n |->
               IF i = 1 THEN [allocated |-> TRUE, run_length |-> n]
               ELSE [cm[s + i] EXCEPT !.allocated = TRUE]]
        \o SubSeq(cm, s + n + 1, Len(cm))

\* A mark_free that clears the allocated flag of the run's first entry only.
mark_free_first_only(cm, s) ==
    LET n == cm[s + 1].run_length IN
    [n |-> n,
     cm |-> [i \in 1..Len(cm) |->
                IF i = s + 1
                THEN [cm[i] EXCEPT !.allocated = FALSE]
                ELSE cm[i]]]

\* mark_free(start): reads run_length at start, clears allocated across
\* that run, returns the run length.  Nothing else is written: the run
\* length stays at start.
mark_free(cm, s) ==
    LET n == cm[s + 1].run_length IN
    [n |-> n,
     cm |-> [i \in 1..Len(cm) |->
                IF i - 1 \in s..(s + n - 1)
                THEN [cm[i] EXCEPT !.allocated = FALSE]
                ELSE cm[i]]]

\* -------------------------------------------------------- frame allocator
\* FrameAllocatorSolution::alloc: first fit over the core map; the pointer
\* is base + start * PAGE_FRAME_SIZE.
FrameAllocatorAlloc(cm, b, n) ==
    LET s == find_free_run(cm, n) IN
    IF s < 0 THEN [ok |-> FALSE, ptr |-> NullPtr, cm |-> cm]
    ELSE [ok |-> TRUE, ptr |-> b + s * PAGE_FRAME_SIZE,
          cm |-> mark_allocated(cm, s, n)]

\* FrameAllocatorSolution::dealloc: start = (ptr - base) / PAGE_FRAME_SIZE.
\* For a pointer below base the subtraction has no value in usize and no
\* frame is found: the call panics.
FrameAllocatorDealloc(cm, b, p) ==
    IF p < b THEN [panic |-> TRUE, n |-> 0, cm |-> cm]
    ELSE LET r == mark_free(cm, (p - b) \div PAGE_FRAME_SIZE) IN
         [panic |-> FALSE, n |-> r.n, cm |-> r.cm]

\* FrameAllocatorWrapper::alloc / dealloc forward to the solution.
WrapperAlloc(cm, b, n) == FrameAllocatorAlloc(cm, b, n)
WrapperDealloc(cm, b, p) == FrameAllocatorDealloc(cm, b, p)

\* ------------------------------------------------------------ the facade
NoCall == [op |-> "none", res |-> "none", ptr |-> NullPtr, route |-> "none",
           arg |-> 0, align |-> 0]

Call(op, res, p, route, arg, align) ==
    [op |-> op, res |-> res, ptr |-> p, route |-> route, arg |-> arg,
     align |-> align]

\* A routing test that sends every call down the dummy-allocator branch.
first_allocation_always(na) == TRUE

\* alloc: `if TOTAL_NUM_ALLOCATIONS.load(Ordering::Relaxed) == 0`
first_allocation(na) == na = 0

\* GlobalAlloc::alloc as a function of the allocator's fields: the result
\* ("ok" with a pointer, "null", or "halt"), the allocator that served it
\* and the fields it writes.
alloc(st, d, na, nfa, size, align) ==
    LET same(res, route) ==
            [res |-> res, ptr |-> NullPtr, route |-> route, dummy |-> d,
             na |-> na, nfa |-> nfa]
        n == num_frames_requested(size, align)
    IN
    IF first_allocation(na)
    THEN IF st /= "Setup" THEN same("halt", "none")
         ELSE IF align > MAX_SUPPORTED_ALIGN THEN same("null", "none")
         ELSE LET r == DummyAlloc(d, n) IN
              IF ~r.ok THEN same("halt", "dummy")
              ELSE [res |-> "ok", ptr |-> r.ptr, route |-> "dummy",
                    dummy |-> r.dummy, na |-> na + 1, nfa |-> nfa + n]
    ELSE IF st /= "Initialized" THEN same("halt", "none")
         ELSE IF align > MAX_SUPPORTED_ALIGN THEN same("null", "none")
         ELSE [res |-> "null", ptr |-> NullPtr, route |-> "none",
               dummy |-> d, na |-> na + 1, nfa |-> nfa + n]

\* The threading system before create_scheduler is called: the boot flow
\* of control runs with interrupts off (it becomes the thread of the
\* bootstrap TCB, tid 0), and there is no scheduler; the queue is the empty
\* one FIFOScheduler::new() makes once create_scheduler returns.
SchedulerNone ==
    /\ scheduler = << >>
    /\ running_thread = 0
    /\ intr_level = "IntrOff"
    /\ scheduler_lock = FALSE
    /\ pc = "boot"
    /\ status_for_current_thread = "Invalid"
    /\ suspended = [t \in {0} |-> [guard |-> "IntrOff", status_arg |-> "Ready",
                                   from |-> "thread"]]
    /\ made = [t \in {} |-> 0]
    /\ wakeup_tcb = [t \in {0} |-> 0 - 1]
    /\ yield_log = [entry |-> << >>, popped |-> {}, again |-> FALSE]
    /\ sched_log = [died |-> {}, ahead |-> [t \in {0} |-> {}],
                    woken |-> {}, later |-> [t \in {0} |-> {}],
                    asleep |-> {}, level |-> [t \in {0} |-> "None"]]

\* The callers of allocate_tid: a thread, and an interrupt handler (or a
\* second thread) that runs while the first is inside the call.
TidCallers == { "thread", "handler" }
NotCalling == [at |-> "out", tid |-> 0 - 1]
NoTidCalls ==
    /\ tid_call = [c \in TidCallers |-> NotCalling]
    /\ tids_returned = {}

\* No TCB is made yet and no tid is taken.
ThreadsInit ==
    /\ tcbs = [t \in {} |-> 0]
    /\ NEXT_UNRESERVED_TID = 0
    /\ SchedulerNone
    /\ NoTidCalls

\* KernelAllocator::new()
AllocInit ==
    /\ state = "Setup"
    /\ dummy_allocator = DummyNew
    /\ base = 0
    /\ core_map = << >>
    /\ TOTAL_NUM_ALLOCATIONS = 0
    /\ TOTAL_NUM_DEALLOCATIONS = 0
    /\ TOTAL_NUM_FRAMES_ALLOCATED = 0
    /\ TOTAL_NUM_FRAMES_DEALLOCATED = 0
    /\ heap_top \in HeapTops
    /\ halted = FALSE
    /\ outstanding = {}
    /\ frame_calls_only = FALSE
    /\ last = NoCall

Init == ThreadsInit /\ AllocInit

\* GlobalAlloc::alloc(layout)
GlobalAlloc(size, align) ==
    /\ ~halted
    /\ TOTAL_NUM_ALLOCATIONS < MaxAllocs
    /\ LET r == alloc(state, dummy_allocator, TOTAL_NUM_ALLOCATIONS,
                      TOTAL_NUM_FRAMES_ALLOCATED, size, align) IN
       /\ dummy_allocator' = r.dummy
       /\ TOTAL_NUM_ALLOCATIONS' = r.na
       /\ TOTAL_NUM_FRAMES_ALLOCATED' = r.nfa
       /\ halted' = (r.res = "halt")
       /\ last' = Call("alloc", r.res, r.ptr, r.route, size, align)
    /\ frame_calls_only' = FALSE
    /\ UNCHANGED << state, base, core_map, TOTAL_NUM_DEALLOCATIONS,
                    TOTAL_NUM_FRAMES_DEALLOCATED, heap_top, outstanding >>
    /\ UNCHANGED sched_vars

\* The layout of a FIFOScheduler, the queue that create_scheduler boxes:
\* its size and alignment in bytes.
FIFOSchedulerSize == 16
FIFOSchedulerAlign == 4

\* create_scheduler(): the assert_eq! on the interrupt level (line 14), then
\* Box::new(FIFOScheduler::new()) (line 17), whose memory comes from
\* GlobalAlloc::alloc.  The call returns the scheduler when alloc gives a
\* pointer; a halt inside alloc stops the CPU, and a null pointer makes
\* Box::new end in the allocation-error panic.
CreateScheduler ==
    /\ ~halted
    /\ pc = "boot"
    /\ IF intr_level /= "IntrOff"
       THEN /\ pc' = "panic"
            /\ last' = Call("create_scheduler", "panic", NullPtr, "none", 0, 0)
            /\ UNCHANGED << dummy_allocator, TOTAL_NUM_ALLOCATIONS,
                            TOTAL_NUM_FRAMES_ALLOCATED, halted,
                            frame_calls_only >>
       ELSE \E r \in { alloc(state, dummy_allocator, TOTAL_NUM_ALLOCATIONS,
                             TOTAL_NUM_FRAMES_ALLOCATED, FIFOSchedulerSize,
                             FIFOSchedulerAlign) } :
            /\ dummy_allocator' = r.dummy
            /\ TOTAL_NUM_ALLOCATIONS' = r.na
            /\ TOTAL_NUM_FRAMES_ALLOCATED' = r.nfa
            /\ halted' = (r.res = "halt")
            /\ pc' = IF r.res = "ok" THEN "thread"
                     ELSE IF r.res = "null" THEN "panic"
                     ELSE pc
            /\ last' = Call("create_scheduler", r.res, r.ptr, r.route,
                            FIFOSchedulerSize, FIFOSchedulerAlign)
            /\ frame_calls_only' = FALSE
    /\ UNCHANGED << state, base, core_map, TOTAL_NUM_DEALLOCATIONS,
                    TOTAL_NUM_FRAMES_DEALLOCATED, heap_top, outstanding >>
    /\ UNCHANGED << tcbs, scheduler, running_thread, NEXT_UNRESERVED_TID,
                    intr_level, scheduler_lock, status_for_current_thread,
                    suspended, wakeup_tcb, yield_log, sched_log, tid_vars,
                    made >>

\* init: `let KernelAllocatorState::SetupState {..} = .. else { panic!(..) }`
init_allowed(st) == st = "Setup"

\* An init that hands frames_base_address itself to the frame allocator.
frames_base_unmoved(frames_base_address, dummy_start) == frames_base_address

\* init: the start pointer handed to FrameAllocatorWrapper::new_in, given
\* frames_base_address and the dummy allocator's start after the core map
\* was allocated.
frames_base(frames_base_address, dummy_start) == dummy_start

\* KernelAllocator::init(mem_upper)
KInit(mem_upper) ==
    /\ ~halted
    /\ LET frames_ceil_address == UPPER_MEMORY_START + mem_upper * KB
           frames_base_address == heap_top
           d1 == [start |-> frames_base_address, end |-> frames_ceil_address]
           num_frames_in_system ==
               (frames_ceil_address - frames_base_address)
                   \div (CoreMapEntrySize + PAGE_FRAME_SIZE)
           \* vec![CoreMapEntry::DEFAULT; num_frames_in_system]
           r == alloc(state, d1, TOTAL_NUM_ALLOCATIONS,
                      TOTAL_NUM_FRAMES_ALLOCATED,
                      num_frames_in_system * CoreMapEntrySize,
                      CoreMapEntryAlign)
           ended(res) == Call("init", res, NullPtr, "none", 0, 0)
       IN
       IF ~init_allowed(state) \/ dummy_allocator /= DummyNew
       THEN \* the let-else panic, or assert_eq!(start, 0) / assert_eq!(end, 0)
            /\ last' = ended("panic")
            /\ UNCHANGED << state, dummy_allocator, base, core_map, counters,
                            halted, frame_calls_only >>
       ELSE IF num_frames_in_system = 0
       THEN \* an empty vector allocates nothing: assert_ne! panics
            /\ dummy_allocator' = d1
            /\ last' = ended("panic")
            /\ UNCHANGED << state, base, core_map, counters, halted,
                            frame_calls_only >>
       ELSE IF r.res /= "ok"
       THEN \* the core-map allocation halts inside the global allocator (a
            \* null pointer makes the vector abort)
            /\ dummy_allocator' = r.dummy
            /\ TOTAL_NUM_ALLOCATIONS' = r.na
            /\ TOTAL_NUM_FRAMES_ALLOCATED' = r.nfa
            /\ halted' = TRUE
            /\ last' = ended("halt")
            /\ UNCHANGED << state, base, core_map, TOTAL_NUM_DEALLOCATIONS,
                            TOTAL_NUM_FRAMES_DEALLOCATED, frame_calls_only >>
       ELSE \* `dummy_allocator` (line 123) is a &mut kept across the vec!,
            \* during which GlobalAlloc::alloc moves the start through a
            \* second &mut to the same allocator: what lines 172 and 178
            \* read through the first is not defined.  A build that reads
            \* the moved start goes on; one that reads the start it wrote
            \* at line 156 fails the assert_ne! of line 172.
            \/ /\ state' = "Initialized"
               /\ dummy_allocator' = DummyNew
               /\ base' = frames_base(frames_base_address, r.dummy.start)
               /\ core_map' = [i \in 1..num_frames_in_system |->
                                   CoreMapEntryDefault]
               /\ TOTAL_NUM_ALLOCATIONS' = r.na
               /\ TOTAL_NUM_FRAMES_ALLOCATED' = r.nfa
               /\ frame_calls_only' = TRUE
               /\ last' = Call("init", "ok", r.ptr, r.route, 0, 0)
               /\ UNCHANGED << TOTAL_NUM_DEALLOCATIONS,
                               TOTAL_NUM_FRAMES_DEALLOCATED, halted >>
            \/ /\ dummy_allocator' = r.dummy
               /\ TOTAL_NUM_ALLOCATIONS' = r.na
               /\ TOTAL_NUM_FRAMES_ALLOCATED' = r.nfa
               /\ last' = ended("panic")
               /\ UNCHANGED << state, base, core_map, TOTAL_NUM_DEALLOCATIONS,
                               TOTAL_NUM_FRAMES_DEALLOCATED, halted,
                               frame_calls_only >>
    /\ UNCHANGED << heap_top, outstanding >>
    /\ UNCHANGED sched_vars

\* KernelAllocator::frame_alloc(frames)
FrameAlloc(frames) ==
    /\ ~halted
    /\ IF state /= "Initialized"
       THEN /\ last' = Call("frame_alloc", "err", NullPtr, "none", frames, 0)
            /\ UNCHANGED << core_map, outstanding >>
       ELSE LET r == WrapperAlloc(core_map, base, frames) IN
            /\ core_map' = r.cm
            /\ outstanding' =
                   IF r.ok THEN outstanding \cup {[ptr |-> r.ptr, frames |-> frames]}
                   ELSE outstanding
            /\ last' = Call("frame_alloc", IF r.ok THEN "ok" ELSE "err",
                            r.ptr, "frame", frames, 0)
    /\ UNCHANGED << state, dummy_allocator, base, counters, heap_top, halted,
                    frame_calls_only >>
    /\ UNCHANGED sched_vars

\* The pointers a deallocation is called with: the starts of the runs
\* frame_alloc returned and nobody freed yet (freeing any other pointer is
\* undefined) and, where the frame allocator is not consulted, any pointer.
DeallocPointers ==
    { o.ptr : o \in outstanding }
        \cup (IF state /= "Initialized" THEN {heap_top} ELSE {})

\* KernelAllocator::frame_dealloc(ptr)
FrameDealloc(p) ==
    /\ ~halted
    /\ IF state /= "Initialized"
       THEN /\ halted' = TRUE
            /\ last' = Call("frame_dealloc", "halt", NullPtr, "none", 0, 0)
            /\ UNCHANGED << core_map, outstanding >>
       ELSE LET r == WrapperDealloc(core_map, base, p) IN
            /\ core_map' = r.cm
            /\ outstanding' = IF r.panic THEN outstanding
                              ELSE { o \in outstanding : o.ptr /= p }
            /\ last' = Call("frame_dealloc", IF r.panic THEN "panic" ELSE "ok",
                            NullPtr, "frame", 0, 0)
            /\ UNCHANGED halted
    /\ UNCHANGED << state, dummy_allocator, base, counters, heap_top,
                    frame_calls_only >>
    /\ UNCHANGED sched_vars

\* GlobalAlloc::dealloc as a function of the allocator's fields: how the
\* call ends ("ok", "halt", or "panic" inside the frame allocator) and the
\* fields it writes.
dealloc(st, cm, b, nd, nfd, p) ==
    IF st /= "Initialized"
    THEN [res |-> "halt", cm |-> cm, nd |-> nd, nfd |-> nfd]
    ELSE LET r == WrapperDealloc(cm, b, p) IN
         IF r.panic THEN [res |-> "panic", cm |-> cm, nd |-> nd, nfd |-> nfd]
         ELSE [res |-> "ok", cm |-> r.cm, nd |-> nd + 1, nfd |-> nfd + r.n]

\* deinit: incorrect_num_allocs || incorrect_num_frames_allocs
leaks_detected(na, nd, nfa, nfd) == na /= nd \/ nfa /= nfd

\* A deinit that only refuses to run twice.
deinit_allowed_unless_done(st) == st /= "Deinitialized"

\* deinit: `let KernelAllocatorState::Initialized {..} = .. else { panic!(..) }`
deinit_allowed(st) == st = "Initialized"

\* The address of the core map's storage: what the dummy allocator gave
\* init, the heap top aligned up to a frame.
core_map_pointer(frames_base_address) ==
    next_multiple_of(frames_base_address, PAGE_FRAME_SIZE)

\* KernelAllocator::deinit().  The assignment of Deinitialized (line 237)
\* drops the Initialized state: the frame allocator holds the
\* Box<[CoreMapEntry]> init gave it, and the box goes to GlobalAlloc::dealloc
\* while the old state is still in place.  The core map lies below the
\* frame base, so that call panics, inside a function that may not unwind.
\* A build in which the panic ends the assignment leaves the allocator as
\* it was (Initialized); one that unwinds through the drop has written
\* Deinitialized.
Deinit ==
    /\ ~halted
    /\ IF ~deinit_allowed(state)
       THEN /\ last' = Call("deinit", "panic", NullPtr, "none", 0, 0)
            /\ UNCHANGED << state, base, core_map, counters, halted >>
       ELSE IF leaks_detected(TOTAL_NUM_ALLOCATIONS, TOTAL_NUM_DEALLOCATIONS,
                              TOTAL_NUM_FRAMES_ALLOCATED,
                              TOTAL_NUM_FRAMES_DEALLOCATED)
       THEN /\ last' = Call("deinit", "panic", NullPtr, "leak", 0, 0)
            /\ UNCHANGED << state, base, core_map, counters, halted >>
       ELSE LET r == dealloc(state, core_map, base, TOTAL_NUM_DEALLOCATIONS,
                             TOTAL_NUM_FRAMES_DEALLOCATED,
                             core_map_pointer(heap_top)) IN
            /\ \/ /\ state' = "Deinitialized"
                  /\ base' = 0
                  /\ core_map' = << >>
               \/ /\ r.res /= "ok"
                  /\ UNCHANGED << state, base, core_map >>
            /\ TOTAL_NUM_DEALLOCATIONS' = r.nd
            /\ TOTAL_NUM_FRAMES_DEALLOCATED' = r.nfd
            /\ halted' = (r.res = "halt")
            /\ last' = Call("deinit", r.res, NullPtr, "drop", 0, 0)
            /\ UNCHANGED << TOTAL_NUM_ALLOCATIONS, TOTAL_NUM_FRAMES_ALLOCATED >>
    /\ UNCHANGED << dummy_allocator, heap_top, outstanding, frame_calls_only >>
    /\ UNCHANGED sched_vars

\* GlobalAlloc::dealloc(ptr, layout)
GlobalDealloc(p) ==
    /\ ~halted
    /\ TOTAL_NUM_DEALLOCATIONS < MaxAllocs
    /\ LET r == dealloc(state, core_map, base, TOTAL_NUM_DEALLOCATIONS,
                        TOTAL_NUM_FRAMES_DEALLOCATED, p) IN
       /\ core_map' = r.cm
       /\ outstanding' = IF r.res = "ok"
                         THEN { o \in outstanding : o.ptr /= p }
                         ELSE outstanding
       /\ TOTAL_NUM_DEALLOCATIONS' = r.nd
       /\ TOTAL_NUM_FRAMES_DEALLOCATED' = r.nfd
       /\ halted' = (r.res = "halt")
       /\ last' = Call("dealloc", r.res, NullPtr,
                       IF r.res = "halt" THEN "none" ELSE "frame", 0, 0)
    /\ frame_calls_only' = FALSE
    /\ UNCHANGED << state, dummy_allocator, base, TOTAL_NUM_ALLOCATIONS,
                    TOTAL_NUM_FRAMES_ALLOCATED, heap_top >>
    /\ UNCHANGED sched_vars

Next ==
    \/ \E mem_upper \in MemUppers : KInit(mem_upper)
    \/ \E size \in LayoutSizes, align \in LayoutAligns : GlobalAlloc(size, align)
    \/ \E p \in DeallocPointers : GlobalDealloc(p)
    \/ \E frames \in FrameCounts : FrameAlloc(frames)
    \/ \E p \in DeallocPointers : FrameDealloc(p)
    \/ Deinit

Spec == Init /\ [][Next]_vars

\* ------------------------------------- the core-map operations on their own
\* mark_allocated and mark_free as functions of the core map, applied to
\* every core map of bounded length: each entry's flag and run length are
\* arbitrary, whether or not the allocator's calls can produce them.
CoreMapEntries ==
    [allocated : BOOLEAN, run_length : 0..MaxCoreMapLen]
CoreMaps ==
    UNION { [1..k -> CoreMapEntries] : k \in 1..MaxCoreMapLen }

\* An initialized allocator whose frame allocator holds any such core map.
MarkInit ==
    /\ ThreadsInit
    /\ state = "Initialized"
    /\ dummy_allocator = DummyNew
    /\ base = UPPER_MEMORY_START + 3 * PAGE_FRAME_SIZE
    /\ core_map \in CoreMaps
    /\ TOTAL_NUM_ALLOCATIONS = 0
    /\ TOTAL_NUM_DEALLOCATIONS = 0
    /\ TOTAL_NUM_FRAMES_ALLOCATED = 0
    /\ TOTAL_NUM_FRAMES_DEALLOCATED = 0
    /\ heap_top = UPPER_MEMORY_START + 2 * PAGE_FRAME_SIZE
    /\ halted = FALSE
    /\ outstanding = {}
    /\ frame_calls_only = FALSE
    /\ last = NoCall

\* mark_allocated(start, n) on a free run [start, start + n); `last` keeps
\* start (as arg) and n (as align).
MarkAllocated(s, n) ==
    /\ n >= 1
    /\ RunFree(core_map, s, n)
    /\ core_map' = mark_allocated(core_map, s, n)
    /\ last' = Call("mark_allocated", "ok", NullPtr, "frame", s, n)
    /\ UNCHANGED << state, dummy_allocator, base, counters, heap_top, halted,
                    outstanding, frame_calls_only >>
    /\ UNCHANGED sched_vars

\* mark_free(start) on the run the preceding mark_allocated marked; `last`
\* keeps start (as arg) and the length mark_free returned (as align).
MarkFree(s) ==
    /\ last.op = "mark_allocated"
    /\ last.arg = s
    /\ \E r \in { mark_free(core_map, s) } :
          /\ core_map' = r.cm
          /\ last' = Call("mark_free", "ok", NullPtr, "frame", s, r.n)
    /\ UNCHANGED << state, dummy_allocator, base, counters, heap_top, halted,
                    outstanding, frame_calls_only >>
    /\ UNCHANGED sched_vars

MarkNext ==
    \/ \E s \in 0..(MaxCoreMapLen - 1), n \in 1..MaxCoreMapLen :
            MarkAllocated(s, n)
    \/ \E s \in 0..(MaxCoreMapLen - 1) : MarkFree(s)

MarkSpec == MarkInit /\ [][MarkNext]_vars

\* -------------------------------------------------------------- threading
\* Thread ids 0 .. MaxThreads - 1 are handed out.
MaxThreads == 3
Tids == 0..(MaxThreads - 1)
NoTid == 0 - 1
\* scheduler_yield_and_continue / _and_block / _and_die
YieldStatuses == { "Ready", "Blocked", "Dying" }
IntrLevels == { "IntrOn", "IntrOff" }
NoYield == [entry |-> << >>, popped |-> {}, again |-> FALSE]

\* The interrupt level a thread starts with the first time it is switched
\* to, and the frame its first switch returns through.
FirstFrame == [guard |-> "IntrOn", status_arg |-> "Ready", from |-> "thread"]

Queued(q) == { q[i] : i \in 1..Len(q) }

\* FIFOScheduler: push at the tail, pop from the head, get_mut by tid over
\* the queued TCBs.
push(q, t) == Append(q, t)
pop(q) ==
    IF q = << >> THEN [tcb |-> NoTid, q |-> q]
    ELSE [tcb |-> Head(q), q |-> Tail(q)]
get_mut(q, tid) == IF tid \in Queued(q) THEN tid ELSE NoTid

\* An allocate_tid whose increment is lost.
allocate_tid_unincremented(next) == [tid |-> next, next |-> next]

\* allocate_tid: NEXT_UNRESERVED_TID.fetch_add(1, SeqCst) as Tid
allocate_tid(next) == [tid |-> next, next |-> (next + 1) % 65536]

\* NonNull::dangling() of a u8 pointer
Dangling == 1

\* ThreadControlBlock::reap
reap(tcb) ==
    IF tcb.status /= "Dying" THEN [res |-> "panic", tcb |-> tcb]
    ELSE [res |-> "ok",
          tcb |-> [f \in DOMAIN tcb |->
                     IF f = "status" THEN "Invalid"
                     ELSE IF tcb.tid /= 0
                             /\ f \in {"kernel_stack_pointer", "eip", "esp"}
                          THEN Dangling
                     ELSE tcb[f]]]

\* scheduler_yield: the popped TCB is switched to unless it is Blocked
switch_candidate(st) == st /= "Blocked"

\* thread_wakeup: the status it writes
wakeup_status == "Ready"

\* switch_threads(status_for_current_thread, switch_to): the outgoing TCB
\* takes the status, the incoming one becomes the running thread; a Dying
\* outgoing TCB is reaped and dropped, any other goes to the queue's tail.
switch_threads(tc, q, cur, st, switch_to) ==
    LET t1 == [tc EXCEPT ![cur].status = st, ![switch_to].status = "Running"] IN
    IF st = "Dying"
    THEN [tcbs |-> [t1 EXCEPT ![cur] = reap(t1[cur]).tcb], q |-> q,
          running |-> switch_to]
    ELSE [tcbs |-> t1, q |-> push(q, cur), running |-> switch_to]

\* The threading system runs: the CPU is not stopped in halt!(), the
\* scheduler is made and the bootstrap TCB is the running thread's.
Booted == ~halted /\ pc /= "boot" /\ running_thread \in DOMAIN tcbs

\* hold_interrupts(level) (interrupts/mutex_irq.rs): the guard keeps the
\* level in effect at the call, and the level asked for is set; when the
\* guard goes out of scope the level it kept is in effect again.
hold_interrupts(level, current) == [guard |-> current, level |-> level]
drop_guard(guard) == guard

\* scheduler_yield, line 22: hold_interrupts(IntrLevel::IntrOff)
yield_intr_level == "IntrOff"

\* scheduler_yield, line 34: drop(scheduler), the lock is released (as it
\* is when `scheduler` goes out of scope, line 47)
drop_scheduler(held) == FALSE

\* scheduler_yield, lines 22 - 24: hold_interrupts(IntrOff) keeps the level
\* to restore in the guard, then the scheduler is locked.
scheduler_yield_enter(st) ==
    /\ Booted
    /\ pc \in {"thread", "die"}
    /\ ~scheduler_lock
    /\ suspended' = [suspended EXCEPT ![running_thread] =
                        [guard |-> hold_interrupts(yield_intr_level,
                                                   intr_level).guard,
                         status_arg |-> st, from |-> pc]]
    /\ intr_level' = hold_interrupts(yield_intr_level, intr_level).level
    /\ scheduler_lock' = TRUE
    /\ pc' = "yield"
    /\ status_for_current_thread' = st
    /\ yield_log' = [entry |-> scheduler, popped |-> {}, again |-> FALSE]
    /\ sched_log' = [sched_log EXCEPT
                        !.died = IF st = "Dying" THEN @ \cup {running_thread}
                                 ELSE @,
                        !.level = [@ EXCEPT ![running_thread] = intr_level]]
    /\ UNCHANGED << tcbs, scheduler, running_thread, NEXT_UNRESERVED_TID,
                    wakeup_tcb >>
    /\ UNCHANGED << alloc_vars, tid_vars, made >>

\* scheduler_yield_and_continue, scheduler_yield_and_block (thread_sleep),
\* scheduler_yield_and_die: the running thread calls scheduler_yield.
YieldEnter(st) ==
    /\ pc = "thread"
    /\ wakeup_tcb[running_thread] = NoTid
    /\ scheduler_yield_enter(st)

\* An interrupt handler (the timer) calls scheduler_yield_and_continue on
\* the stack of whatever the running thread was doing: between its calls,
\* or between the return of scheduler_yield(Dying) and the panic.
TimerInterrupt ==
    /\ intr_level = "IntrOn"
    /\ scheduler_yield_enter("Ready")

\* The running thread turns interrupts off or on (intr_disable,
\* intr_enable) between its calls.
IntrSetLevel(level) ==
    /\ Booted
    /\ pc = "thread" /\ wakeup_tcb[running_thread] = NoTid
    /\ intr_level /= level
    /\ intr_level' = level
    /\ UNCHANGED << tcbs, scheduler, running_thread, NEXT_UNRESERVED_TID,
                    scheduler_lock, pc, status_for_current_thread, suspended,
                    wakeup_tcb, yield_log, sched_log >>
    /\ UNCHANGED << alloc_vars, tid_vars, made >>

\* The Ready TCBs of a queue.
ReadyIn(q, tc) == { t \in Queued(q) : tc[t].status = "Ready" }

\* History: TCB x is pushed; it is enqueued later than the wake-up of
\* every woken thread that has not run yet.
Pushed(log, x) ==
    [log EXCEPT !.later = [t \in DOMAIN @ |->
                             IF t \in log.woken THEN @[t] \cup {x} ELSE @[t]]]

\* Where the CPU is when scheduler_yield returns: scheduler_yield_and_die
\* has its panic! ahead (line 58), the others return to where they were
\* called from.
after_yield(st, from) == IF st = "Dying" THEN "die" ELSE from

\* scheduler_yield, one turn of `while let Some(switch_to) = pop()`.
YieldPop ==
    /\ pc = "yield"
    /\ scheduler /= << >>
    /\ LET r == pop(scheduler)
           t == r.tcb IN
       IF ~switch_candidate(tcbs[t].status)
       THEN /\ scheduler' = push(r.q, t)
            /\ yield_log' = [yield_log EXCEPT
                                !.popped = @ \cup {t},
                                !.again = @ \/ t \in yield_log.popped]
            /\ sched_log' = Pushed(sched_log, t)
            /\ UNCHANGED << tcbs, running_thread, intr_level, scheduler_lock,
                            pc, status_for_current_thread >>
       ELSE LET sw == switch_threads(tcbs, r.q, running_thread,
                                     status_for_current_thread, t) IN
            /\ scheduler_lock' = drop_scheduler(scheduler_lock)
            /\ tcbs' = sw.tcbs
            /\ scheduler' = sw.q
            /\ running_thread' = sw.running
            \* thread t goes on where it was switched away from: its
            \* switch_threads returns, its guard restores the level, and
            \* its scheduler_yield returns to its caller
            /\ intr_level' = drop_guard(suspended[t].guard)
            /\ pc' = after_yield(suspended[t].status_arg, suspended[t].from)
            /\ status_for_current_thread' = "Invalid"
            /\ yield_log' = NoYield
            /\ sched_log' =
                   LET log == IF status_for_current_thread = "Dying"
                              THEN sched_log
                              ELSE Pushed(sched_log, running_thread) IN
                   [log EXCEPT
                      !.ahead = [x \in DOMAIN tcbs |->
                          IF x = running_thread
                          THEN IF status_for_current_thread = "Ready"
                               THEN ReadyIn(yield_log.entry, tcbs) \ {t}
                               ELSE {}
                          ELSE @[x] \ {t}],
                      !.woken = @ \ {t},
                      !.later = [@ EXCEPT ![t] = {}],
                      !.asleep = IF status_for_current_thread = "Blocked"
                                 THEN @ \cup {running_thread} ELSE @]
    /\ UNCHANGED << NEXT_UNRESERVED_TID, suspended, wakeup_tcb >>
    /\ UNCHANGED << alloc_vars, tid_vars, made >>

\* scheduler_yield, pop() gave None: the loop ends, the lock and the guard
\* go out of scope, the call returns.
YieldReturn ==
    /\ pc = "yield"
    /\ scheduler = << >>
    /\ scheduler_lock' = drop_scheduler(scheduler_lock)
    /\ intr_level' = drop_guard(suspended[running_thread].guard)
    /\ pc' = after_yield(status_for_current_thread,
                      suspended[running_thread].from)
    /\ status_for_current_thread' = "Invalid"
    /\ yield_log' = NoYield
    /\ UNCHANGED << tcbs, scheduler, running_thread, NEXT_UNRESERVED_TID,
                    suspended, wakeup_tcb, sched_log >>
    /\ UNCHANGED << alloc_vars, tid_vars, made >>

\* scheduler_yield_and_die, line 58: scheduler_yield(Dying) has returned,
\* panic!("A thread was rescheduled after dying.")
YieldAndDiePanic ==
    /\ pc = "die"
    /\ pc' = "panic"
    /\ UNCHANGED << tcbs, scheduler, running_thread, NEXT_UNRESERVED_TID,
                    intr_level, scheduler_lock, status_for_current_thread,
                    suspended, wakeup_tcb, yield_log, sched_log >>
    /\ UNCHANGED << alloc_vars, tid_vars, made >>

\* thread_wakeup(tid), lines 16 - 17: the scheduler is reached through
\* unwrap_system_mut() and get_mut(tid) looks the TCB up; nothing is locked
\* and the interrupt level stays as it is.  With no such TCB in the queue
\* the call is over.
ThreadWakeupLookup(tid) ==
    /\ Booted
    /\ pc = "thread" /\ wakeup_tcb[running_thread] = NoTid
    /\ wakeup_tcb' = [wakeup_tcb EXCEPT ![running_thread] =
                         get_mut(scheduler, tid)]
    /\ UNCHANGED << tcbs, scheduler, running_thread, NEXT_UNRESERVED_TID,
                    intr_level, scheduler_lock, pc, status_for_current_thread,
                    suspended, yield_log, sched_log >>
    /\ UNCHANGED << alloc_vars, tid_vars, made >>

\* thread_wakeup(tid), line 18: tcb.status = ThreadStatus::Ready.  When
\* the TCB was reaped and dropped since the lookup the reference dangles
\* and the write may or may not show in the dead TCB.
ThreadWakeupWrite ==
    /\ pc = "thread" /\ wakeup_tcb[running_thread] /= NoTid
    /\ LET t == wakeup_tcb[running_thread] IN
       \E v \in {wakeup_status} \cup
                 (IF t \in Queued(scheduler) THEN {} ELSE {tcbs[t].status}) :
           tcbs' = [tcbs EXCEPT ![t].status = v]
    /\ sched_log' =
           LET t == wakeup_tcb[running_thread] IN
           IF t \in Queued(scheduler) /\ tcbs[t].status = "Blocked"
           THEN [sched_log EXCEPT !.woken = @ \cup {t}, !.asleep = @ \ {t}]
           ELSE [sched_log EXCEPT !.asleep = @ \ {t}]
    /\ wakeup_tcb' = [wakeup_tcb EXCEPT ![running_thread] = NoTid]
    /\ UNCHANGED << scheduler, running_thread, NEXT_UNRESERVED_TID,
                    intr_level, scheduler_lock, pc, status_for_current_thread,
                    suspended, yield_log >>
    /\ UNCHANGED << alloc_vars, tid_vars, made >>

\* ------------------------------------------------- thread control blocks
\* TCB construction and reaping over the frame allocator
\* (thread_control_block.rs).  Here a TCB carries all its fields but the
\* page manager; the scheduler is left as it was created.
KERNEL_THREAD_STACK_FRAMES == 2
KERNEL_THREAD_STACK_SIZE == KERNEL_THREAD_STACK_FRAMES * PAGE_FRAME_SIZE
USER_THREAD_STACK_FRAMES == 4 * 1024
USER_THREAD_STACK_SIZE == USER_THREAD_STACK_FRAMES * PAGE_FRAME_SIZE
USER_STACK_BOTTOM_VIRT == 1048576
\* size_of::<SwitchThreadsContext>(): the callee-saved registers edi, esi,
\* ebx, ebp and the return address, four bytes each.
SwitchThreadsContextSize == 20

\* TCBs are made while NEXT_UNRESERVED_TID < MaxTcbs.
MaxTcbs == 2
\* Memory for the stacks of one thread (2 + 4096 frames) and three frames
\* more.
TcbMemUppers == { 16 * KB + 64 }
\* The functions a thread is made for.
EntryPoints == { UPPER_MEMORY_START + 64 }
\* The statuses switch_threads writes into a TCB.
SwitchStatuses == { "Running", "Ready", "Blocked", "Dying" }

sched_rest == << scheduler, running_thread, intr_level, scheduler_lock, pc,
                 status_for_current_thread, suspended, wakeup_tcb, yield_log,
                 sched_log, tid_vars, made >>

\* KernelAllocator::frame_alloc(frames) as a function of the allocator
frame_alloc(st, cm, b, frames) ==
    IF st /= "Initialized" THEN [ok |-> FALSE, ptr |-> NullPtr, cm |-> cm]
    ELSE WrapperAlloc(cm, b, frames)

\* ThreadControlBlock::new_kernel_thread
new_kernel_thread(next) ==
    LET a == allocate_tid(next) IN
    [next |-> a.next,
     tcb |-> [kernel_stack_pointer |-> Dangling, kernel_stack |-> Dangling,
              eip |-> Dangling, esp |-> Dangling, user_stack |-> Dangling,
              tid |-> a.tid, status |-> "Running", exit_code |-> "None"]]

\* has_stack_space(bytes)
has_stack_space(tcb, bytes) ==
    tcb.kernel_stack_pointer - tcb.kernel_stack >= bytes

\* A shift_stack_pointer_down that leaves the pointer where it is.
shift_stack_pointer_down_none(tcb, amount) == tcb

\* shift_stack_pointer_down(amount)
shift_stack_pointer_down(tcb, amount) ==
    [tcb EXCEPT !.kernel_stack_pointer = @ - amount]

\* An allocate_stack_space that lowers the pointer unchecked.
allocate_stack_space_unchecked(tcb, bytes) ==
    [some |-> TRUE, tcb |-> shift_stack_pointer_down(tcb, bytes)]

\* allocate_stack_space(bytes): Some(new pointer), or None
allocate_stack_space(tcb, bytes) ==
    IF ~has_stack_space(tcb, bytes) THEN [some |-> FALSE, tcb |-> tcb]
    ELSE [some |-> TRUE, tcb |-> shift_stack_pointer_down(tcb, bytes)]

\* setup_context: room for the SwitchThreadsContext, or the expect panics
setup_context(tcb) ==
    LET r == allocate_stack_space(tcb, SwitchThreadsContextSize) IN
    [res |-> IF r.some THEN "ok" ELSE "panic", tcb |-> r.tcb]

\* allocate_kernel_stack / allocate_user_stack: frame_alloc(..).expect(..),
\* the run allocated (ok), or the panic of the expect
allocate_kernel_stack(st, cm, b) ==
    frame_alloc(st, cm, b, KERNEL_THREAD_STACK_FRAMES)
allocate_user_stack(st, cm, b) ==
    frame_alloc(st, cm, b, USER_THREAD_STACK_FRAMES)

\* new_func, lines 154 - 175: the TCB over its two stacks
new_func_tcb(a, k, u, entry) ==
    LET new_thread ==
            [kernel_stack_pointer |-> k.ptr + KERNEL_THREAD_STACK_SIZE,
             kernel_stack |-> k.ptr,
             eip |-> entry,
             esp |-> USER_STACK_BOTTOM_VIRT + USER_THREAD_STACK_SIZE,
             user_stack |-> u.ptr,
             tid |-> a.tid, status |-> "Invalid", exit_code |-> "None"]
        kernel_run == [ptr |-> k.ptr, frames |-> KERNEL_THREAD_STACK_FRAMES]
        user_run == [ptr |-> u.ptr, frames |-> USER_THREAD_STACK_FRAMES]
    IN
    IF ~u.ok
    THEN [res |-> "panic", next |-> a.next, cm |-> k.cm, runs |-> {kernel_run}]
    ELSE IF setup_context(new_thread).res /= "ok"
    THEN [res |-> "panic", next |-> a.next, cm |-> u.cm,
          runs |-> {kernel_run, user_run}]
    ELSE [res |-> "ok", next |-> a.next, cm |-> u.cm,
          runs |-> {kernel_run, user_run},
          tcb |-> [setup_context(new_thread).tcb EXCEPT !.status = "Ready"]]

\* new_func, line 153: the user stack follows the kernel stack
new_func_stacks(a, k, st, cm, b, entry) ==
    IF ~k.ok
    THEN [res |-> "panic", next |-> a.next, cm |-> cm, runs |-> {}]
    ELSE new_func_tcb(a, k, allocate_user_stack(st, k.cm, b), entry)

\* ThreadControlBlock::new_func(entry_instruction): the tid, the kernel
\* stack, the user stack, the context, status Ready.  A failed frame_alloc
\* panics in its expect, with what was allocated before left allocated.
new_func(st, cm, b, next, entry) ==
    new_func_stacks(allocate_tid(next), allocate_kernel_stack(st, cm, b),
                    st, cm, b, entry)

\* What parse_elf makes of the images a thread is made from: an error, or
\* the entry point and the lengths in bytes of the areas to load.
ElfImages ==
    { [ok |-> FALSE, entry |-> 0, areas |-> << >>],
      [ok |-> TRUE, entry |-> 0, areas |-> << >>],
      [ok |-> TRUE, entry |-> USER_STACK_BOTTOM_VIRT - PAGE_FRAME_SIZE,
       areas |-> << 100 >>] }

\* usize::div_ceil
div_ceil(x, m) == (x + m - 1) \div m

RECURSIVE load_areas(_, _, _, _, _)
RECURSIVE load_area(_, _, _, _, _, _)

\* new_elf, lines 76 - 120: frame_alloc(frames).expect(..) for every area,
\* in order; the first failure panics with the earlier runs left allocated
load_areas(st, cm, b, areas, runs) ==
    IF areas = << >> THEN [ok |-> TRUE, cm |-> cm, runs |-> runs]
    ELSE load_area(st, b,
                   frame_alloc(st, cm, b, div_ceil(Head(areas), PAGE_FRAME_SIZE)),
                   div_ceil(Head(areas), PAGE_FRAME_SIZE), Tail(areas), runs)
load_area(st, b, f, frames, rest, runs) ==
    IF ~f.ok THEN [ok |-> FALSE, cm |-> f.cm, runs |-> runs]
    ELSE load_areas(st, f.cm, b, rest,
                    runs \cup {[ptr |-> f.ptr, frames |-> frames]})

with_runs(r, runs) == [r EXCEPT !.runs = @ \cup runs]

\* new_elf, lines 129 - 146: the TCB as in new_func, but a zero entry point
\* panics in `expect("failed to create eip")`
new_elf_tcb(a, l, k, u, entry) ==
    IF u.ok /\ entry = 0
    THEN [res |-> "panic", next |-> a.next, cm |-> u.cm,
          runs |-> l.runs \cup
                   {[ptr |-> k.ptr, frames |-> KERNEL_THREAD_STACK_FRAMES],
                    [ptr |-> u.ptr, frames |-> USER_THREAD_STACK_FRAMES]}]
    ELSE with_runs(new_func_tcb(a, k, u, entry), l.runs)

\* new_elf, lines 122 - 126: the kernel stack, then the user stack
new_elf_stacks(a, l, k, st, b, entry) ==
    IF ~k.ok
    THEN [res |-> "panic", next |-> a.next, cm |-> l.cm, runs |-> l.runs]
    ELSE new_elf_tcb(a, l, k, allocate_user_stack(st, k.cm, b), entry)

new_elf_loaded(a, l, st, b, entry) ==
    IF ~l.ok
    THEN [res |-> "panic", next |-> a.next, cm |-> l.cm, runs |-> l.runs]
    ELSE new_elf_stacks(a, l, allocate_kernel_stack(st, l.cm, b), st, b, entry)

\* ThreadControlBlock::new_elf(elf_data): the tid first, then parse_elf
\* (malformed data panics), the areas, the stacks, the context, Ready
new_elf_parsed(a, st, cm, b, elf) ==
    IF ~elf.ok
    THEN [res |-> "panic", next |-> a.next, cm |-> cm, runs |-> {}]
    ELSE new_elf_loaded(a, load_areas(st, cm, b, elf.areas, {}), st, b,
                        elf.entry)
new_elf(st, cm, b, next, elf) ==
    new_elf_parsed(allocate_tid(next), st, cm, b, elf)

TcbInit == Init /\ heap_top = UPPER_MEMORY_START + 2 * PAGE_FRAME_SIZE

\* new_kernel_thread, called once while the threading system starts
NewKernelThread ==
    /\ ~halted
    /\ NEXT_UNRESERVED_TID < MaxTcbs
    /\ \A t \in DOMAIN tcbs : tcbs[t].kernel_stack /= Dangling
    /\ LET r == new_kernel_thread(NEXT_UNRESERVED_TID) IN
       /\ NEXT_UNRESERVED_TID' = r.next
       /\ tcbs' = [t \in DOMAIN tcbs \cup {r.tcb.tid} |->
                     IF t = r.tcb.tid THEN r.tcb ELSE tcbs[t]]
       /\ last' = Call("new_kernel_thread", "ok", NullPtr, "none", r.tcb.tid, 0)
    /\ UNCHANGED << state, dummy_allocator, base, core_map, counters,
                    heap_top, halted, outstanding, frame_calls_only >>
    /\ UNCHANGED sched_rest

\* new_func / new_elf: what the call leaves behind
Made(op, r, tid, entry) ==
    /\ NEXT_UNRESERVED_TID' = r.next
    /\ core_map' = r.cm
    /\ outstanding' = outstanding \cup r.runs
    /\ tcbs' = IF r.res /= "ok" THEN tcbs
               ELSE [t \in DOMAIN tcbs \cup {tid} |->
                       IF t = tid THEN r.tcb ELSE tcbs[t]]
    /\ last' = Call(op, r.res, entry, "none", tid, 0)

\* new_func(entry_instruction)
NewFunc(entry) ==
    /\ ~halted
    /\ NEXT_UNRESERVED_TID < MaxTcbs
    /\ Made("new_func",
            new_func(state, core_map, base, NEXT_UNRESERVED_TID, entry),
            NEXT_UNRESERVED_TID, entry)
    /\ UNCHANGED << state, dummy_allocator, base, counters, heap_top, halted,
                    frame_calls_only >>
    /\ UNCHANGED sched_rest

\* new_elf(elf_data)
NewElf(elf) ==
    /\ ~halted
    /\ NEXT_UNRESERVED_TID < MaxTcbs
    /\ Made("new_elf",
            new_elf(state, core_map, base, NEXT_UNRESERVED_TID, elf),
            NEXT_UNRESERVED_TID, elf.entry)
    /\ UNCHANGED << state, dummy_allocator, base, counters, heap_top, halted,
                    frame_calls_only >>
    /\ UNCHANGED sched_rest

\* The sizes asked of allocate_stack_space after the context is set up:
\* what is then left above one page, one page, and the whole stack.
StackRequests ==
    { KERNEL_THREAD_STACK_SIZE - PAGE_FRAME_SIZE - SwitchThreadsContextSize,
      PAGE_FRAME_SIZE, KERNEL_THREAD_STACK_SIZE }

\* tcb.allocate_stack_space(bytes) on a live TCB
AllocateStackSpace(t, bytes) ==
    /\ ~halted
    /\ tcbs[t].status /= "Invalid"
    /\ LET r == allocate_stack_space(tcbs[t], bytes) IN
       /\ tcbs' = [tcbs EXCEPT ![t] = r.tcb]
       /\ last' = IF r.some
                  THEN Call("allocate_stack_space", "some",
                            r.tcb.kernel_stack_pointer, "none", t, 0)
                  ELSE Call("allocate_stack_space", "none", NullPtr, "none",
                            t, 0)
    /\ UNCHANGED << NEXT_UNRESERVED_TID, state, dummy_allocator, base,
                    core_map, counters, heap_top, halted, outstanding,
                    frame_calls_only >>
    /\ UNCHANGED sched_rest

\* set_exit_code(exit_code): exit_code = Some(exit_code)
set_exit_code(tcb, exit_code) == [tcb EXCEPT !.exit_code = exit_code]

\* The exit codes handed to set_exit_code.
ExitCodes == { 7 }

\* tcb.set_exit_code(exit_code), on any TCB
SetExitCode(t, exit_code) ==
    /\ ~halted
    /\ tcbs' = [tcbs EXCEPT ![t] = set_exit_code(tcbs[t], exit_code)]
    /\ last' = Call("set_exit_code", "ok", NullPtr, "none", t, 0)
    /\ UNCHANGED << NEXT_UNRESERVED_TID, state, dummy_allocator, base,
                    core_map, counters, heap_top, halted, outstanding,
                    frame_calls_only >>
    /\ UNCHANGED sched_rest

\* switch_threads writes the status of a live TCB.
SetStatus(t, st) ==
    /\ ~halted
    /\ tcbs[t].status \notin {"Invalid", st}
    /\ tcbs' = [tcbs EXCEPT ![t].status = st]
    /\ UNCHANGED << NEXT_UNRESERVED_TID, state, dummy_allocator, base,
                    core_map, counters, heap_top, halted, outstanding,
                    frame_calls_only, last >>
    /\ UNCHANGED sched_rest

\* tcb.reap()
Reap(t) ==
    /\ ~halted
    /\ LET r == reap(tcbs[t]) IN
       /\ tcbs' = [tcbs EXCEPT ![t] = r.tcb]
       /\ last' = Call("reap", r.res, NullPtr, "none", t, 0)
    /\ UNCHANGED << NEXT_UNRESERVED_TID, state, dummy_allocator, base,
                    core_map, counters, heap_top, halted, outstanding,
                    frame_calls_only >>
    /\ UNCHANGED sched_rest

TcbNext ==
    \/ \E mem_upper \in TcbMemUppers : KInit(mem_upper)
    \/ NewKernelThread
    \/ \E entry \in EntryPoints : NewFunc(entry)
    \/ \E elf \in ElfImages : NewElf(elf)
    \/ \E t \in DOMAIN tcbs, st \in SwitchStatuses : SetStatus(t, st)
    \/ \E t \in DOMAIN tcbs : Reap(t)

TcbSpec == TcbInit /\ [][TcbNext]_vars

\* The allocator is initialized, TCBs are constructed and given exit codes.
ConstructNext ==
    \/ \E mem_upper \in TcbMemUppers : KInit(mem_upper)
    \/ NewKernelThread
    \/ \E entry \in EntryPoints : NewFunc(entry)
    \/ \E elf \in ElfImages : NewElf(elf)
    \/ \E t \in DOMAIN tcbs, exit_code \in ExitCodes : SetExitCode(t, exit_code)

ConstructSpec == TcbInit /\ [][ConstructNext]_vars

\* Threads that are built, take space on their kernel stacks, die and are
\* reaped.
StackNext ==
    \/ \E mem_upper \in TcbMemUppers : KInit(mem_upper)
    \/ NewKernelThread
    \/ \E entry \in EntryPoints : NewFunc(entry)
    \/ \E elf \in ElfImages : NewElf(elf)
    \/ \E t \in DOMAIN tcbs : SetStatus(t, "Dying")
    \/ \E t \in DOMAIN tcbs : Reap(t)
    \/ \E t \in DOMAIN tcbs, bytes \in StackRequests :
          AllocateStackSpace(t, bytes)

StackSpec == TcbInit /\ [][StackNext]_vars

\* ------------------------------------------------ threads on the scheduler
\* Memory for the stacks of two threads (2 + 4096 frames each) and no
\* frame more; and, past a heap top of 1 MB + 8 KB, one page and no room
\* for a core-map entry (init finds no frame and panics).
SchedMemUppers == { 12, 32 * KB + 92 }

\* The running thread calls new_func(entry_instruction) and holds the TCB;
\* a failed frame_alloc panics.
ThreadNewFunc(entry) ==
    /\ Booted
    /\ pc = "thread" /\ wakeup_tcb[running_thread] = NoTid
    /\ NEXT_UNRESERVED_TID < MaxThreads
    /\ \E r \in { new_func(state, core_map, base, NEXT_UNRESERVED_TID, entry) } :
       LET tid == NEXT_UNRESERVED_TID
           known == DOMAIN suspended \cup {tid}
       IN
       /\ Made("new_func", r, tid, entry)
       /\ IF r.res /= "ok"
          THEN /\ pc' = "panic"
               /\ UNCHANGED << suspended, wakeup_tcb, sched_log, made >>
          ELSE /\ pc' = pc
               /\ suspended' = [t \in known |->
                                  IF t = tid THEN FirstFrame ELSE suspended[t]]
               /\ wakeup_tcb' = [t \in known |->
                                   IF t = tid THEN NoTid ELSE wakeup_tcb[t]]
               /\ sched_log' = [sched_log EXCEPT
                                   !.ahead = [t \in known |->
                                                IF t = tid THEN {} ELSE @[t]],
                                   !.later = [t \in known |->
                                                IF t = tid THEN {} ELSE @[t]],
                                   !.level = [t \in known |->
                                                IF t = tid THEN "None"
                                                ELSE @[t]]]
               /\ made' = [t \in DOMAIN made \cup {tid} |->
                             IF t = tid THEN running_thread ELSE made[t]]
    /\ UNCHANGED << state, dummy_allocator, base, counters, heap_top, halted,
                    frame_calls_only >>
    /\ UNCHANGED << scheduler, running_thread, intr_level, scheduler_lock,
                    status_for_current_thread, yield_log, tid_vars >>

\* The thread that made TCB t hands it to the scheduler: push(t) under the
\* scheduler's lock.
SchedulerPush(t) ==
    /\ pc = "thread" /\ wakeup_tcb[running_thread] = NoTid
    /\ ~scheduler_lock
    /\ t \in DOMAIN made /\ made[t] = running_thread
    /\ scheduler' = push(scheduler, t)
    /\ made' = [x \in DOMAIN made \ {t} |-> made[x]]
    /\ sched_log' = Pushed(sched_log, t)
    /\ UNCHANGED << tcbs, running_thread, NEXT_UNRESERVED_TID, intr_level,
                    scheduler_lock, pc, status_for_current_thread, suspended,
                    wakeup_tcb, yield_log >>
    /\ UNCHANGED << alloc_vars, tid_vars >>

\* The tids handed to thread_wakeup: those of the queued TCBs, and the
\* caller's own for a tid that no queued TCB has.
WakeupTids == Queued(scheduler) \cup {running_thread}

\* The kernel boots (init, create_scheduler, the bootstrap TCB), and its
\* threads make threads, yield, sleep, wake each other and die while the
\* timer ticks.
SchedNext ==
    \/ \E mem_upper \in SchedMemUppers : KInit(mem_upper)
    \/ CreateScheduler
    \/ NewKernelThread
    \/ \E entry \in EntryPoints : ThreadNewFunc(entry)
    \/ \E t \in Tids : SchedulerPush(t)
    \/ \E st \in YieldStatuses : YieldEnter(st)
    \/ TimerInterrupt
    \/ \E level \in IntrLevels : IntrSetLevel(level)
    \/ YieldPop
    \/ YieldReturn
    \/ YieldAndDiePanic
    \/ \E tid \in WakeupTids : ThreadWakeupLookup(tid)
    \/ ThreadWakeupWrite

SchedSpec == TcbInit /\ [][SchedNext]_vars

\* What SchedSpec reaches.  create_scheduler returns only when its box is
\* served by the dummy allocator, that is after an init that found no frame
\* and panicked; the allocator is then in Setup for good, frame_alloc gives
\* no stack and new_func panics.  Next to an initialized allocator
\* create_scheduler ends in the allocation error.  So the threading system
\* never runs beside a frame allocator, the bootstrap TCB is the only one,
\* and the queue stays empty.
SchedulerOnlyInSetup ==
    pc \in {"thread", "yield", "die"} => state = "Setup"
SchedulerQueueEmpty ==
    scheduler = << >> /\ DOMAIN tcbs \subseteq {0}

\* ----------------------------------------------------------- allocate_tid
\* Callers of allocate_tid one instruction at a time: the call is entered,
\* fetch_add runs (one atomic read-modify-write), the value is returned.
\* allocate_tid is called while NEXT_UNRESERVED_TID < MaxTidCalls.
MaxTidCalls == 6

Entering == { c \in TidCallers : tid_call[c].at = "in" }

tid_rest == << alloc_vars, tcbs, scheduler, running_thread, intr_level,
               scheduler_lock, pc, status_for_current_thread, suspended,
               wakeup_tcb, yield_log, sched_log, made >>

AllocateTidEnter(c) ==
    /\ tid_call[c].at = "out"
    /\ NEXT_UNRESERVED_TID + Cardinality(Entering) < MaxTidCalls
    /\ tid_call' = [tid_call EXCEPT ![c] = [at |-> "in", tid |-> 0 - 1]]
    /\ UNCHANGED << NEXT_UNRESERVED_TID, tids_returned >>
    /\ UNCHANGED tid_rest

\* NEXT_UNRESERVED_TID.fetch_add(1, Ordering::SeqCst)
AllocateTidFetchAdd(c) ==
    /\ tid_call[c].at = "in"
    /\ LET a == allocate_tid(NEXT_UNRESERVED_TID) IN
       /\ NEXT_UNRESERVED_TID' = a.next
       /\ tid_call' = [tid_call EXCEPT ![c] = [at |-> "got", tid |-> a.tid]]
    /\ UNCHANGED tids_returned
    /\ UNCHANGED tid_rest

\* `as Tid`, and the value goes back to the caller
AllocateTidReturn(c) ==
    /\ tid_call[c].at = "got"
    /\ tids_returned' = tids_returned \cup {tid_call[c].tid}
    /\ tid_call' = [tid_call EXCEPT ![c] = NotCalling]
    /\ UNCHANGED NEXT_UNRESERVED_TID
    /\ UNCHANGED tid_rest

TidNext ==
    \/ \E c \in TidCallers : AllocateTidEnter(c)
    \/ \E c \in TidCallers : AllocateTidFetchAdd(c)
    \/ \E c \in TidCallers : AllocateTidReturn(c)

TidSpec == TcbInit /\ [][TidNext]_vars

\* ------------------------------ the earlier thread control block module
\* src/threading/thread_control_block.rs, the version before the kernel
\* crate: NEXT_UNRESERVED_TID is a `static mut` u16 that allocate_tid reads
\* and then increments with nothing locked ("TODO: Lock"), a TCB is tid,
\* status, stack_pointer, _stack_pointer_bottom and context, and the stack
\* pointer is lowered unchecked.  Addresses here are plain byte addresses.
THREAD_STACK_SIZE == KB * 4
\* size_of RunThreadContext (eip, entry_function_pointer), of
\* PrepareThreadContext (eip) and of Context (edi, esi, ebx, ebp, eip) on
\* the 32-bit target.
RunThreadContextSize == 8
PrepareThreadContextSize == 4
ContextSize == 20
\* Context::empty_context()
EmptyContext == [edi |-> 0, esi |-> 0, ebx |-> 0, ebp |-> 0, eip |-> 0]

\* TCBs are created while NEXT_UNRESERVED_TID < MaxEarlierTcbs.
MaxEarlierTcbs == 1
\* What Global.allocate_zeroed returns for a stack: a block aligned to 8.
EarlierStackBottoms == { MB, MB + THREAD_STACK_SIZE + 8 }

\* NEXT_UNRESERVED_TID += 1 on a u16: the sum wraps in a build without
\* overflow checks.
earlier_tid_add(v) == (v + 1) % 65536

\* allocate_tid, line 40: let new_tid = NEXT_UNRESERVED_TID
EarlierAllocateTidRead(c) ==
    /\ tid_call[c].at = "in"
    /\ tid_call' = [tid_call EXCEPT ![c] =
                       [at |-> "read", tid |-> NEXT_UNRESERVED_TID]]
    /\ UNCHANGED << NEXT_UNRESERVED_TID, tids_returned >>
    /\ UNCHANGED tid_rest

\* allocate_tid, line 43, the operand of `+= 1`: the counter is a plain
\* static that another caller may write at the same time, so the build
\* may read it again or go on with the value it read at line 40.
EarlierAllocateTidLoad(c) ==
    /\ tid_call[c].at = "read"
    /\ \E v \in {tid_call[c].tid, NEXT_UNRESERVED_TID} :
           tid_call' = [tid_call EXCEPT ![c] =
                           [at |-> "loaded", tid |-> tid_call[c].tid,
                            tmp |-> v]]
    /\ UNCHANGED << NEXT_UNRESERVED_TID, tids_returned >>
    /\ UNCHANGED tid_rest

\* allocate_tid, line 43, the write of `+= 1`; at 65535 a build with
\* overflow checks panics ("attempt to add with overflow").
EarlierAllocateTidStore(c) ==
    /\ tid_call[c].at = "loaded"
    /\ \/ /\ NEXT_UNRESERVED_TID' = earlier_tid_add(tid_call[c].tmp)
          /\ tid_call' = [tid_call EXCEPT ![c] =
                             [at |-> "got", tid |-> tid_call[c].tid]]
       \/ /\ tid_call[c].tmp = 65535
          /\ tid_call' = [tid_call EXCEPT ![c] =
                             [at |-> "panic", tid |-> tid_call[c].tid]]
          /\ UNCHANGED NEXT_UNRESERVED_TID
    /\ UNCHANGED tids_returned
    /\ UNCHANGED tid_rest

\* Two callers of the earlier allocate_tid, one statement at a time.
EarlierTidNext ==
    \/ \E c \in TidCallers : AllocateTidEnter(c)
    \/ \E c \in TidCallers : EarlierAllocateTidRead(c)
    \/ \E c \in TidCallers : EarlierAllocateTidLoad(c)
    \/ \E c \in TidCallers : EarlierAllocateTidStore(c)
    \/ \E c \in TidCallers : AllocateTidReturn(c)

EarlierTidSpec == TcbInit /\ [][EarlierTidNext]_vars

\* shift_stack_pointer_down(amount): raw_pointer.sub(amount), and
\* NonNull::new(..).expect(..) for the result.  Nothing is compared with
\* the bottom of the stack.  A result of 0 is the panic of the expect, or,
\* where the build takes the result of `sub` for a pointer into the stack
\* and drops the test, a pointer of 0.
earlier_shift_stack_pointer_down(tcb, amount) ==
    [res |-> IF tcb.stack_pointer - amount = 0 THEN {"panic", "ok"}
             ELSE {"ok"},
     tcb |-> [tcb EXCEPT !.stack_pointer = @ - amount]]

\* allocate_stack_space(bytes): shift_stack_pointer_down(bytes)
earlier_allocate_stack_space(tcb, bytes) ==
    earlier_shift_stack_pointer_down(tcb, bytes)

\* allocate_frame(): shift_stack_pointer_down(size_of::<Context>())
earlier_allocate_frame(tcb) ==
    earlier_shift_stack_pointer_down(tcb, ContextSize)

\* create(entry_function), lines 67 - 112: the TCB over its stack, the
\* frames of run_thread, prepare_thread and switch_threads, status Ready.
earlier_create(tid, stack_pointer_bottom) ==
    LET new_thread ==
            [tid |-> tid, status |-> "Invalid",
             stack_pointer |-> stack_pointer_bottom + THREAD_STACK_SIZE,
             _stack_pointer_bottom |-> stack_pointer_bottom,
             context |-> EmptyContext]
        run_thread_stack_frame ==
            earlier_allocate_stack_space(new_thread, RunThreadContextSize)
        prepare_thread_stack_frame ==
            earlier_allocate_stack_space(run_thread_stack_frame.tcb,
                                         PrepareThreadContextSize)
        switch_threads_stack_frame ==
            earlier_allocate_frame(prepare_thread_stack_frame.tcb)
    IN
    [switch_threads_stack_frame.tcb EXCEPT !.status = "Ready"]

\* ThreadControlBlock::create(entry_function): the tid (allocate_tid with
\* no other caller about), the stack from the global allocator, the TCB.
\* Without a stack the expect panics, the tid taken.
EarlierCreate(entry, stack_pointer_bottom) ==
    /\ NEXT_UNRESERVED_TID < MaxEarlierTcbs
    /\ LET tid == NEXT_UNRESERVED_TID IN
       /\ NEXT_UNRESERVED_TID' = earlier_tid_add(tid)
       /\ IF stack_pointer_bottom = NullPtr
          THEN /\ last' = Call("create", "panic", entry, "none", tid, 0)
               /\ UNCHANGED tcbs
          ELSE /\ tcbs' = [t \in DOMAIN tcbs \cup {tid} |->
                             IF t = tid
                             THEN earlier_create(tid, stack_pointer_bottom)
                             ELSE tcbs[t]]
               /\ last' = Call("create", "ok", entry, "none", tid, 0)
    /\ UNCHANGED << state, dummy_allocator, base, core_map, counters,
                    heap_top, halted, outstanding, frame_calls_only >>
    /\ UNCHANGED sched_rest

\* What a call on TCB t that lowers its stack pointer leaves behind.
EarlierShifted(op, t, amount, r) ==
    /\ \E res \in r.res :
           /\ tcbs' = IF res = "ok" THEN [tcbs EXCEPT ![t] = r.tcb] ELSE tcbs
           /\ last' = Call(op, res,
                           IF res = "ok" THEN r.tcb.stack_pointer
                           ELSE NullPtr, "none", t, amount)
    /\ UNCHANGED << NEXT_UNRESERVED_TID, state, dummy_allocator, base,
                    core_map, counters, heap_top, halted, outstanding,
                    frame_calls_only >>
    /\ UNCHANGED sched_rest

\* The sizes asked of a TCB's stack: a quarter of a stack, a whole stack,
\* what is left of it, and all there is down to address 0.
EarlierStackRequests(tcb) ==
    { KB, THREAD_STACK_SIZE, tcb.stack_pointer - tcb._stack_pointer_bottom,
      tcb.stack_pointer }

\* The calls are made on a TCB whose stack pointer is still in its stack.
EarlierInStack(tcb) ==
    /\ tcb._stack_pointer_bottom <= tcb.stack_pointer
    /\ tcb.stack_pointer <= tcb._stack_pointer_bottom + THREAD_STACK_SIZE

\* tcb.allocate_stack_space(bytes)
EarlierAllocateStackSpace(t, bytes) ==
    /\ EarlierInStack(tcbs[t])
    /\ EarlierShifted("allocate_stack_space", t, bytes,
                      earlier_allocate_stack_space(tcbs[t], bytes))

\* tcb.allocate_frame()
EarlierAllocateFrame(t) ==
    /\ EarlierInStack(tcbs[t])
    /\ EarlierShifted("allocate_frame", t, ContextSize,
                      earlier_allocate_frame(tcbs[t]))

\* tcb.shift_stack_pointer_down(amount)
EarlierShiftStackPointerDown(t, amount) ==
    /\ EarlierInStack(tcbs[t])
    /\ EarlierShifted("shift_stack_pointer_down", t, amount,
                      earlier_shift_stack_pointer_down(tcbs[t], amount))

\* TCBs of the earlier module are created and their stacks are taken from.
EarlierStackNext ==
    \/ \E entry \in EntryPoints,
          stack_pointer_bottom \in EarlierStackBottoms \cup {NullPtr} :
          EarlierCreate(entry, stack_pointer_bottom)
    \/ \E t \in DOMAIN tcbs :
          \E bytes \in EarlierStackRequests(tcbs[t]) :
              EarlierAllocateStackSpace(t, bytes)
    \/ \E t \in DOMAIN tcbs : EarlierAllocateFrame(t)
    \/ \E t \in DOMAIN tcbs :
          \E amount \in EarlierStackRequests(tcbs[t]) :
              EarlierShiftStackPointerDown(t, amount)

EarlierStackSpec == TcbInit /\ [][EarlierStackNext]_vars

\* ---------------------------------------------------------------- claims
Fatal == {"halt", "panic"}

\* the byte ranges of two runs do not meet
RunsDisjoint(o1, o2) ==
    \/ o1.ptr + o1.frames * PAGE_FRAME_SIZE <= o2.ptr
    \/ o2.ptr + o2.frames * PAGE_FRAME_SIZE <= o1.ptr

\* no run of n consecutive free entries exists in cm
NoFreeRun(cm, n) ==
    ~ \E s \in 0..Len(cm) :
        /\ s + n <= Len(cm)
        /\ \A i \in (s + 1)..(s + n) : ~cm[i].allocated

\* C1: the allocator state only moves Setup -> Initialized (by init) and
\* Initialized -> Deinitialized (by deinit); init called outside Setup and
\* deinit called outside Initialized end in a fatal error and leave the
\* state as it was.
C1_StateMonotonic ==
    [][ /\ state' /= state =>
            \/ state = "Setup" /\ state' = "Initialized" /\ last'.op = "init"
            \/ /\ state = "Initialized" /\ state' = "Deinitialized"
               /\ last'.op = "deinit"
        /\ (last'.op = "init" /\ state /= "Setup") =>
               (last'.res \in Fatal /\ state' = state)
        /\ (last'.op = "deinit" /\ state /= "Initialized") =>
               (last'.res \in Fatal /\ state' = state) ]_vars

\* C1 witness: the allocator went all the way to Deinitialized and an init
\* called there was refused.
C1_Witness ==
    state = "Deinitialized" /\ last.op = "init" /\ last.res = "panic"

\* C2: in state Initialized a global allocate call with supported alignment
\* for which enough free frames exist returns a non-null pointer.
C2_InitializedAllocServes ==
    ( /\ last.op = "alloc"
      /\ state = "Initialized"
      /\ last.align <= MAX_SUPPORTED_ALIGN
      /\ ~NoFreeRun(core_map, num_frames_requested(last.arg, last.align)) )
        => (last.res = "ok" /\ last.ptr /= NullPtr)

\* C3 as claimed: every global allocate call made in Setup with supported
\* alignment is served by the dummy allocator, however many allocations
\* preceded it; none made in Initialized is; and the dummy allocator serves
\* only the core-map allocation made inside init.
C3_RoutedByStateAlone ==
    /\ (last.op = "alloc" /\ state = "Setup"
            /\ last.align <= MAX_SUPPORTED_ALIGN) => last.route = "dummy"
    /\ (last.op = "alloc" /\ state = "Initialized") => last.route /= "dummy"
    /\ (last.route = "dummy" /\ last.res = "ok") => last.op = "init"

\* C3 as amended: a global allocate call made in Setup with supported
\* alignment reaches the dummy allocator exactly when no allocation has
\* succeeded yet (the allocations counter is 0); once one has, the call halts
\* without consulting the dummy allocator.  No call made in Initialized is
\* served by the dummy allocator, and whatever the dummy allocator serves is
\* the first successful allocation.
C3_RoutedByFirstAllocation ==
    /\ (last.op = "alloc" /\ state = "Setup"
            /\ last.align <= MAX_SUPPORTED_ALIGN) =>
           IF last.res = "ok"
           THEN last.route = "dummy" /\ TOTAL_NUM_ALLOCATIONS = 1
           ELSE /\ last.res = "halt"
                /\ (last.route = "dummy") <=> (TOTAL_NUM_ALLOCATIONS = 0)
    /\ (last.op = "alloc" /\ state = "Initialized") => last.route /= "dummy"
    /\ (last.route = "dummy" /\ last.res = "ok") => TOTAL_NUM_ALLOCATIONS = 1

\* C3 witness: a call made in Setup after one allocation had succeeded
\* halted without reaching the dummy allocator.
C3_Witness ==
    /\ state = "Setup" /\ last.op = "alloc" /\ last.res = "halt"
    /\ last.route = "none" /\ TOTAL_NUM_ALLOCATIONS = 1

\* C4: in state Deinitialized every facade call ends in a halt or a panic.
C4_DeinitializedAllFatal ==
    ( /\ state = "Deinitialized"
      /\ last.op /= "none"
      /\ ~(last.op = "deinit" /\ last.res = "ok") )
        => last.res \in Fatal

\* C5: a global allocate call made where allocation is legal returns null
\* and changes nothing when the alignment exceeds the frame size, and
\* returns a non-null pointer when the alignment is exactly the frame size
\* and memory is available.
C5_AlignmentBoundary ==
    [][ ( /\ last'.op = "alloc"
          /\ \/ state = "Setup" /\ TOTAL_NUM_ALLOCATIONS = 0
             \/ state = "Initialized" )
        => /\ last'.align > MAX_SUPPORTED_ALIGN =>
                /\ last'.res = "null"
                /\ UNCHANGED << state, dummy_allocator, base, core_map,
                                counters >>
           /\ ( /\ last'.align = PAGE_FRAME_SIZE
                /\ IF state = "Setup"
                   THEN DummyAlloc(dummy_allocator,
                            num_frames_requested(last'.arg, last'.align)).ok
                   ELSE ~NoFreeRun(core_map,
                            num_frames_requested(last'.arg, last'.align)) )
                => (last'.res = "ok" /\ last'.ptr /= NullPtr) ]_vars

C7_BalancedFrameCallsLeaveNoLeak ==
    (state = "Initialized" /\ frame_calls_only /\ outstanding = {}) =>
        /\ \A i \in 1..Len(core_map) : ~core_map[i].allocated
        /\ TOTAL_NUM_ALLOCATIONS = TOTAL_NUM_DEALLOCATIONS
        /\ TOTAL_NUM_FRAMES_ALLOCATED = TOTAL_NUM_FRAMES_DEALLOCATED

\* C8: a successful frame_alloc(n) raises the frames-allocated counter by n,
\* frame_dealloc raises the frames-deallocated counter by the freed run's
\* length, and deinit ends in "Leaks detected" while a run is outstanding.
C8_FrameCallsCounted ==
    [][ /\ (last'.op = "frame_alloc" /\ last'.res = "ok") =>
               TOTAL_NUM_FRAMES_ALLOCATED'
                   = TOTAL_NUM_FRAMES_ALLOCATED + last'.arg
        /\ (last'.op = "frame_dealloc" /\ last'.res = "ok") =>
               \E o \in outstanding \ outstanding' :
                   TOTAL_NUM_FRAMES_DEALLOCATED'
                       = TOTAL_NUM_FRAMES_DEALLOCATED + o.frames
        /\ (last'.op = "deinit" /\ state = "Initialized"
                /\ outstanding /= {}) =>
               (last'.res = "panic" /\ last'.route = "leak") ]_vars

\* C9: the frame ranges of any two outstanding allocations are disjoint.
C9_OutstandingDisjoint ==
    \A o1 \in outstanding : \A o2 \in outstanding :
        o1 /= o2 => RunsDisjoint(o1, o2)

\* C9 witness: frame_alloc returned a second run while another was
\* outstanding.
C9_Witness ==
    /\ Cardinality(outstanding) = 2
    /\ last.op = "frame_alloc" /\ last.res = "ok"

\* C10: a pointer returned by frame_alloc(n) is frame-aligned and its n
\* frames lie inside [base, base + total_frames * PAGE_FRAME_SIZE); when no
\* run of n consecutive free frames exists frame_alloc fails and leaves the
\* core map unchanged.
C10_FrameAllocInRegion ==
    [][ (last'.op = "frame_alloc" /\ state = "Initialized") =>
            /\ last'.res = "ok" =>
                   /\ last'.ptr % PAGE_FRAME_SIZE = 0
                   /\ base <= last'.ptr
                   /\ last'.ptr + last'.arg * PAGE_FRAME_SIZE
                          <= base + Len(core_map) * PAGE_FRAME_SIZE
            /\ NoFreeRun(core_map, last'.arg) =>
                   (last'.res = "err" /\ core_map' = core_map) ]_vars

\* C10 witness: frame_alloc(total_frames + 1) failed.
C10_Witness ==
    /\ state = "Initialized" /\ last.op = "frame_alloc" /\ last.res = "err"
    /\ last.arg = Len(core_map) + 1

C20_ReapFreesStacks ==
    [][\A t \in DOMAIN tcbs :
          (tcbs[t].status = "Dying" /\ tcbs'[t].status = "Invalid") =>
              IF t /= 0
              THEN tcbs[t].kernel_stack /= Dangling =>
                   /\ AllFree(core_map',
                              (tcbs[t].kernel_stack - base) \div PAGE_FRAME_SIZE,
                              KERNEL_THREAD_STACK_FRAMES)
                   /\ AllFree(core_map',
                              (tcbs[t].user_stack - base) \div PAGE_FRAME_SIZE,
                              USER_THREAD_STACK_FRAMES)
                   /\ \A o \in outstanding' :
                          o.ptr \notin {tcbs[t].kernel_stack, tcbs[t].user_stack}
              ELSE core_map' = core_map /\ outstanding' = outstanding]_vars

\* C21: reap of a TCB whose status is Ready, Running or Blocked is a fatal
\* error that leaves the TCB as it is; reap of a Dying TCB ends with status
\* Invalid; reap of a TCB that is already Invalid raises no error and
\* leaves the TCB as it is.
C21_ReapByStatus ==
    [][\A t \in DOMAIN tcbs :
          (last' /= last /\ last'.op = "reap" /\ last'.arg = t) =>
              CASE tcbs[t].status \in {"Ready", "Running", "Blocked"} ->
                       last'.res \in Fatal /\ tcbs' = tcbs
                [] tcbs[t].status = "Dying" ->
                       last'.res = "ok" /\ tcbs'[t].status = "Invalid"
                [] tcbs[t].status = "Invalid" ->
                       last'.res = "ok" /\ tcbs' = tcbs]_vars

\* C22: the values allocate_tid returns are pairwise distinct, also when
\* a second caller enters the call before the first has left it: a value
\* being returned was not returned before and is not held by the other
\* caller.  It holds of the kernel's allocate_tid (TidSpec) and fails for
\* the earlier one (EarlierTidSpec).
C22_TidsDistinct ==
    [][\A c \in TidCallers :
          (tid_call[c].at = "got" /\ tid_call'[c].at = "out") =>
              /\ tid_call[c].tid \notin tids_returned
              /\ \A d \in TidCallers \ {c} :
                     tid_call[d].at = "got" => tid_call[d].tid /= tid_call[c].tid
              /\ tid_call[c].tid < NEXT_UNRESERVED_TID]_vars

\* Both callers are inside the kernel's allocate_tid with their values,
\* after earlier calls have returned.
C22_Witness ==
    /\ tid_call["thread"].at = "got" /\ tid_call["handler"].at = "got"
    /\ tids_returned /= {}
    /\ \E t \in tids_returned : t < tid_call["thread"].tid
    /\ \E t \in tids_returned : t < tid_call["handler"].tid

\* The TCB new_kernel_thread makes has no stacks of its own.
IsBootstrap(tcb) == tcb.kernel_stack = Dangling

\* C23 as stated: in every state the TCB with tid 0 is the bootstrap
\* kernel thread of new_kernel_thread, and no TCB made by new_func or
\* new_elf has tid 0, in whatever order the three are called.
C23_TidZeroIsBootstrap ==
    \A t \in DOMAIN tcbs : (tcbs[t].tid = 0) <=> IsBootstrap(tcbs[t])

\* C23: tid 0 goes to the call that allocates a tid first and to no later
\* one: a TCB made with the counter at 0 has tid 0, one made later has
\* not, and the TCB with tid 0 stays the one it was.  So when
\* new_kernel_thread is the first of the calls, the TCB with tid 0 is the
\* bootstrap thread and no TCB of new_func or new_elf has tid 0.
C23_FirstMadeHasTidZero ==
    [][/\ \A t \in DOMAIN tcbs' :
             /\ tcbs'[t].tid = t
             /\ t \notin DOMAIN tcbs => (t = 0 <=> NEXT_UNRESERVED_TID = 0)
       /\ \A t \in DOMAIN tcbs :
             /\ t \in DOMAIN tcbs'
             /\ IsBootstrap(tcbs'[t]) <=> IsBootstrap(tcbs[t])
       /\ (NEXT_UNRESERVED_TID = 0 /\ last' /= last
             /\ last'.op = "new_kernel_thread") =>
             (0 \in DOMAIN tcbs' /\ IsBootstrap(tcbs'[0]))]_vars

\* new_kernel_thread came first: tid 0 is the bootstrap thread, tid 1 a
\* thread of new_func or new_elf.
C23_Witness ==
    /\ DOMAIN tcbs = {0, 1}
    /\ IsBootstrap(tcbs[0]) /\ ~IsBootstrap(tcbs[1])
    /\ tcbs[1].tid = 1

\* C24: the TCB new_elf or new_func returns has status Ready and no exit
\* code, its eip is the entry point, its esp is USER_STACK_BOTTOM_VIRT +
\* USER_THREAD_STACK_SIZE, and its kernel stack pointer is the top of its
\* kernel stack lowered by the size of the SwitchThreadsContext.
C24_MadeReady ==
    [][(last' /= last /\ last'.op \in {"new_func", "new_elf"}
          /\ last'.res = "ok") =>
          /\ last'.arg \in DOMAIN tcbs' \ DOMAIN tcbs
          /\ LET tcb == tcbs'[last'.arg] IN
             /\ tcb.status = "Ready"
             /\ tcb.exit_code = "None"
             /\ tcb.eip = last'.ptr
             /\ tcb.esp = USER_STACK_BOTTOM_VIRT + USER_THREAD_STACK_SIZE
             /\ tcb.kernel_stack_pointer =
                    tcb.kernel_stack + KERNEL_THREAD_STACK_SIZE
                        - SwitchThreadsContextSize]_vars

\* new_elf has returned the TCB of an image with one area to load.
C24_Witness ==
    /\ last.op = "new_elf" /\ last.res = "ok"
    /\ last.arg \in DOMAIN tcbs
    /\ tcbs[last.arg].status = "Ready"
    /\ tcbs[last.arg].eip = USER_STACK_BOTTOM_VIRT - PAGE_FRAME_SIZE
    /\ Cardinality(outstanding) = 3

\* C28 for the kernel's TCB (StackSpec), where it holds:
\* the kernel stack pointer of a live TCB lies between the base of
\* its kernel stack and base + KERNEL_THREAD_STACK_SIZE; allocate_stack_space
\* lowers it by exactly `bytes` when bytes <= pointer - base (the base may
\* be reached) and otherwise returns None and leaves it; nothing else
\* lowers it.
C28_StackPointerInBounds ==
    [][/\ \A t \in DOMAIN tcbs' :
             tcbs'[t].status /= "Invalid" =>
                 /\ tcbs'[t].kernel_stack <= tcbs'[t].kernel_stack_pointer
                 /\ tcbs'[t].kernel_stack_pointer <=
                        tcbs'[t].kernel_stack + KERNEL_THREAD_STACK_SIZE
       /\ \A t \in DOMAIN tcbs, bytes \in StackRequests :
             AllocateStackSpace(t, bytes) =>
                 IF bytes <= tcbs[t].kernel_stack_pointer - tcbs[t].kernel_stack
                 THEN /\ tcbs'[t].kernel_stack_pointer =
                             tcbs[t].kernel_stack_pointer - bytes
                      /\ last'.res = "some"
                      /\ last'.ptr = tcbs'[t].kernel_stack_pointer
                 ELSE tcbs' = tcbs /\ last'.res = "none"
       /\ \A t \in DOMAIN tcbs :
             (tcbs'[t].status /= "Invalid"
                 /\ tcbs'[t].kernel_stack_pointer < tcbs[t].kernel_stack_pointer)
                 => last'.op = "allocate_stack_space" /\ last'.res = "some"]_vars

\* allocate_stack_space has taken the kernel stack of a thread down to
\* its base.
C28_Witness ==
    /\ last.op = "allocate_stack_space" /\ last.res = "some"
    /\ tcbs[last.arg].status /= "Invalid"
    /\ ~IsBootstrap(tcbs[last.arg])
    /\ tcbs[last.arg].kernel_stack_pointer = tcbs[last.arg].kernel_stack

\* C28 for the earlier module (EarlierStackSpec): the stack pointer of a TCB lies between the
\* bottom of its stack and bottom + THREAD_STACK_SIZE, and a call lowers
\* it only by an amount that is not more than what is left above the
\* bottom.
C28_EarlierStackPointerInBounds ==
    [][\A t \in DOMAIN tcbs' :
          /\ EarlierInStack(tcbs'[t])
          /\ (t \in DOMAIN tcbs
                /\ tcbs'[t].stack_pointer < tcbs[t].stack_pointer) =>
                 last'.align <= tcbs[t].stack_pointer
                                    - tcbs[t]._stack_pointer_bottom]_vars

\* C29: a global allocate call that returns null (unsupported alignment or
\* no memory obtained) leaves all four counters unchanged; the allocations
\* and frames-allocated counters are raised only by calls that succeeded.
C29_NullLeavesCounters ==
    [][\A size \in LayoutSizes, align \in LayoutAligns :
          (GlobalAlloc(size, align) /\ last'.res = "null")
              => counters' = counters]_vars

\* C30: after init(mem_upper) the managed region
\* [base, base + num_frames * PAGE_FRAME_SIZE) starts at or after the end of
\* the storage the dummy allocator handed out for the core map and ends at
\* or below the end of physical memory, UPPER_MEMORY_START + mem_upper KB.
C30_ManagedRegionInMemory ==
    [][\A mem_upper \in MemUppers :
          (KInit(mem_upper) /\ state' = "Initialized") =>
              /\ last'.ptr
                     + num_frames_requested(Len(core_map') * CoreMapEntrySize,
                                            CoreMapEntryAlign)
                           * PAGE_FRAME_SIZE <= base'
              /\ base' + Len(core_map') * PAGE_FRAME_SIZE
                     <= UPPER_MEMORY_START + mem_upper * KB]_vars
====
